---- MODULE Spec2Model ----
(***************************************************************************)
(* A model of rustc-hash's FxHasher (src/lib.rs): the word-sized hash      *)
(* state, the mixing step add_to_hash, the byte consumer write and the     *)
(* observer finish.                                                        *)
(*                                                                         *)
(* A machine word (usize, u64) is a sequence of bytes, least significant   *)
(* byte first, so that the arithmetic keeps its full width: a 32-bit word  *)
(* has 4 limbs and a 64-bit word has 8, and every operation is computed    *)
(* modulo 2^W limb by limb.                                                *)
(***************************************************************************)
EXTENDS Integers, Sequences, FiniteSets

VARIABLES
    target,   \* the build target: pointer width and byte order
    data,     \* the caller's buffer, fed to the hasher slice by slice
    hasher,   \* the FxHasher value: [hash |-> word]
    calls,    \* history: the byte slices given to write, in call order
    hist,     \* history: the hasher after default() and after each write
    last      \* the last operation, what it mixed and what it returned

vars == <<target, data, hasher, calls, hist, last>>

(***************************************************************************)
(* Bounds of the model.                                                    *)
(***************************************************************************)
MaxTotal == 17      \* bytes in the caller's buffer
MaxCalls == 3       \* write calls on one hasher

(***************************************************************************)
(* Targets and widths.                                                     *)
(***************************************************************************)
Targets == [bits : {32, 64}, endian : {"little", "big"}]

size_of_u8 == 1
size_of_u16 == 2
size_of_u32 == 4
size_of_u64 == 8
size_of_usize(t) == t.bits \div 8

\* 0x9e3779b9, least significant byte first
K32 == <<185, 121, 55, 158>>
\* 0x517cc1b727220a95, least significant byte first
K64 == <<149, 10, 34, 39, 183, 193, 124, 81>>
\* (mutant) even constants
K_even(t) == IF t.bits = 32 THEN <<184, 121, 55, 158>>
             ELSE <<148, 10, 34, 39, 183, 193, 124, 81>>
K(t) == IF t.bits = 32 THEN K32 ELSE K64

(***************************************************************************)
(* Word arithmetic on limbs.                                               *)
(***************************************************************************)
RECURSIVE XorBits(_, _, _)
XorBits(x, y, n) ==
    IF n = 0 THEN 0
    ELSE ((x + y) % 2) + 2 * XorBits(x \div 2, y \div 2, n - 1)

NibbleXor == [x \in 0..15 |-> [y \in 0..15 |-> XorBits(x, y, 4)]]

XorByte(x, y) ==
    16 * NibbleXor[x \div 16][y \div 16] + NibbleXor[x % 16][y % 16]

bitxor(a, b) == [i \in 1..Len(a) |-> XorByte(a[i], b[i])]

Pow2(n) == CASE n = 0 -> 1 [] n = 1 -> 2 [] n = 2 -> 4 [] n = 3 -> 8
             [] n = 4 -> 16 [] n = 5 -> 32 [] n = 6 -> 64 [] n = 7 -> 128
             [] n = 8 -> 256

\* rotate_left by n bits, 0 < n < 8: every limb takes its own low bits
\* shifted up and the high bits of the limb below it, the lowest limb
\* taking those of the highest.
rotate_left(w, n) ==
    [i \in 1..Len(w) |->
        ((w[i] * Pow2(n)) % 256)
        + (w[IF i = 1 THEN Len(w) ELSE i - 1] \div Pow2(8 - n))]

RECURSIVE ColSum(_, _, _, _)
ColSum(a, b, k, i) ==
    IF i > k THEN 0 ELSE a[i] * b[k + 1 - i] + ColSum(a, b, k, i + 1)

RECURSIVE MulLimbs(_, _, _, _)
MulLimbs(a, b, k, carry) ==
    IF k > Len(a) THEN <<>>
    ELSE LET s == ColSum(a, b, k, 1) + carry
         IN  <<s % 256>> \o MulLimbs(a, b, k + 1, s \div 256)

\* the product modulo 2^W: the limbs above the word are never formed
wrapping_mul(a, b) == MulLimbs(a, b, 1, 0)

(***************************************************************************)
(* Conversions.                                                            *)
(***************************************************************************)
Reverse(s) == [i \in 1..Len(s) |-> s[Len(s) + 1 - i]]

\* uN::from_ne_bytes: the value of the bytes in the target's byte order
from_ne_bytes(t, arr) == IF t.endian = "little" THEN arr ELSE Reverse(arr)

\* `v as usize`: zero extension (or truncation) to the word width
as_usize(t, v) ==
    [i \in 1..size_of_usize(t) |-> IF i <= Len(v) THEN v[i] ELSE 0]

\* `v as u64`
as_u64(v) == [i \in 1..size_of_u64 |-> IF i <= Len(v) THEN v[i] ELSE 0]

\* slice::split_at(mid): panics when mid > len
split_at(bytes, mid) ==
    IF mid > Len(bytes)
    THEN [panicked |-> TRUE, head |-> <<>>, rest |-> <<>>]
    ELSE [panicked |-> FALSE,
          head |-> SubSeq(bytes, 1, mid),
          rest |-> SubSeq(bytes, mid + 1, Len(bytes))]

\* <[u8; n]>::try_from(slice).unwrap(): panics unless the slice has n bytes
try_into_unwrap(slice, n) ==
    [panicked |-> Len(slice) # n, arr |-> slice]

(***************************************************************************)
(* FxHasher.                                                               *)
(***************************************************************************)
Zero(n) == [i \in 1..n |-> 0]

\* (mutant) a hasher that starts from a seed
default_seeded(t) == [hash |-> K(t)]

default(t) == [hash |-> Zero(size_of_usize(t))]

\* (mutant) the value is XORed in before the rotation
add_to_hash_xor_first(t, self, i) ==
    [hash |-> wrapping_mul(rotate_left(bitxor(self.hash, i), 5), K(t))]

add_to_hash(t, self, i) ==
    [hash |-> wrapping_mul(bitxor(rotate_left(self.hash, 5), i), K(t))]

\* The running state of one write call: the local copy `hash`, the
\* remaining `bytes`, the offset of `bytes` in the slice given, the mix
\* steps made so far and whether the call has panicked.
MixOf(t, st, width, v) ==
    [off |-> st.off, width |-> width, value |-> v,
     pre |-> st.hash, post |-> add_to_hash(t, st.hash, v)]

\* split_at(n), from_ne_bytes(try_into().unwrap()) as usize, add_to_hash,
\* bytes = rest_bytes
TakeChunk(t, st, n) ==
    LET sp == split_at(st.bytes, n)
        cv == try_into_unwrap(sp.head, n)
    IN  IF sp.panicked \/ cv.panicked
        THEN [st EXCEPT !.panicked = TRUE]
        ELSE LET m == MixOf(t, st, n, as_usize(t, from_ne_bytes(t, cv.arr)))
             IN  [hash |-> m.post, bytes |-> sp.rest, off |-> st.off + n,
                  mixes |-> Append(st.mixes, m), panicked |-> FALSE]

\* (mutants) guards that compare strictly, or against the wrong width
has_usize_gt(t, bytes) == Len(bytes) > size_of_usize(t)
has_u32_gt(bytes) == Len(bytes) > size_of_u32
has_u16_u8(bytes) == Len(bytes) >= size_of_u8
has_u16_gt(bytes) == Len(bytes) > size_of_u16
has_u8_never(bytes) == FALSE

has_usize(t, bytes) == Len(bytes) >= size_of_usize(t)
has_u32(bytes) == Len(bytes) >= size_of_u32
has_u16(bytes) == Len(bytes) >= size_of_u16
has_u8(bytes) == Len(bytes) >= size_of_u8

word_assert(t) == size_of_usize(t) <= size_of_u64

RECURSIVE WordLoop(_, _)
WordLoop(t, st) ==
    IF ~st.panicked /\ has_usize(t, st.bytes)
    THEN WordLoop(t, TakeChunk(t, st, size_of_usize(t)))
    ELSE st

U32Step(t, st) ==
    IF ~st.panicked /\ has_u32(st.bytes)
    THEN TakeChunk(t, st, size_of_u32)
    ELSE st

U16Step(t, st) ==
    IF ~st.panicked /\ has_u16(st.bytes)
    THEN TakeChunk(t, st, size_of_u16)
    ELSE st

\* bytes[0] as usize: the index panics on an empty slice
U8Step(t, st) ==
    IF ~st.panicked /\ has_u8(st.bytes)
    THEN IF Len(st.bytes) = 0
         THEN [st EXCEPT !.panicked = TRUE]
         ELSE LET m == MixOf(t, st, size_of_u8, as_usize(t, <<st.bytes[1]>>))
              IN  [st EXCEPT !.hash = m.post, !.mixes = Append(st.mixes, m)]
    ELSE st

\* The body of Hasher::write from `let mut hash = *self` to the last mix
\* step: the running state when the call reaches `*self = hash`.
WriteRun(t, self, bytes) ==
    U8Step(t, U16Step(t, U32Step(t, WordLoop(t,
        [hash |-> self, bytes |-> bytes, off |-> 0,
         mixes |-> <<>>, panicked |-> ~word_assert(t)]))))

\* (mutant) the call starts from a new hasher, not from `*self`
write_from_default(t, self, bytes) ==
    LET st == WriteRun(t, [hash |-> [i \in 1..size_of_usize(t) |-> 0]], bytes)
    IN  [self |-> IF st.panicked THEN self ELSE st.hash,
         mixes |-> st.mixes,
         panicked |-> st.panicked]

\* Hasher::write: the hasher after the call (unchanged when the call
\* panicked before `*self = hash`), its mix steps and whether it panicked.
write(t, self, bytes) ==
    LET st == WriteRun(t, self, bytes)
    IN  [self |-> IF st.panicked THEN self ELSE st.hash,
         mixes |-> st.mixes,
         panicked |-> st.panicked]

\* (mutant) finish mixes the state once more and stores it
finish_mixing(self) ==
    [self |-> [hash |-> rotate_left(self.hash, 5)],
     ret |-> as_u64(rotate_left(self.hash, 5))]

\* Hasher::finish(&self): the value returned, and the hasher, which a
\* shared borrow leaves as it was
finish(self) == [self |-> self, ret |-> as_u64(self.hash)]

(***************************************************************************)
(* The caller's buffers.                                                   *)
(***************************************************************************)
Patterns == {"zero", "count", "high"}

Buffer(p) ==
    [i \in 1..MaxTotal |->
        CASE p = "zero" -> 0
          [] p = "count" -> i % 256
          [] p = "high" -> 255 - ((3 * i) % 128)]

RECURSIVE Consumed(_)
Consumed(cs) == IF cs = <<>> THEN 0 ELSE Len(Head(cs)) + Consumed(Tail(cs))

NoOp == [op |-> "default", mixes |-> <<>>, panicked |-> FALSE, ret |-> <<>>]

(***************************************************************************)
(* The state machine.                                                      *)
(***************************************************************************)
Init ==
    /\ target \in Targets
    /\ data \in {Buffer(p) : p \in Patterns}
    /\ hasher = default(target)
    /\ calls = <<>>
    /\ hist = <<default(target)>>
    /\ last = NoOp

\* FxHasher::default(): the caller starts over with a new hasher
Default ==
    /\ ~last.panicked
    /\ hasher' = default(target)
    /\ calls' = <<>>
    /\ hist' = <<default(target)>>
    /\ last' = NoOp
    /\ UNCHANGED <<target, data>>

\* hasher.write(bytes) with the next k bytes of the buffer
Write ==
    /\ ~last.panicked
    /\ Len(calls) < MaxCalls
    /\ \E k \in 0..(MaxTotal - Consumed(calls)) :
         LET pos == Consumed(calls)
             bytes == SubSeq(data, pos + 1, pos + k)
             r == write(target, hasher, bytes)
         IN  /\ hasher' = r.self
             /\ calls' = Append(calls, bytes)
             /\ hist' = Append(hist, r.self)
             /\ last' = [op |-> "write", mixes |-> r.mixes,
                         panicked |-> r.panicked, ret |-> <<>>]
    /\ UNCHANGED <<target, data>>

\* hasher.finish()
Finish ==
    /\ ~last.panicked
    /\ LET r == finish(hasher)
       IN  /\ hasher' = r.self
           /\ last' = [op |-> "finish", mixes |-> <<>>,
                       panicked |-> FALSE, ret |-> r.ret]
    /\ UNCHANGED <<target, data, calls, hist>>

Next == Default \/ Write \/ Finish

Spec == Init /\ [][Next]_vars

(***************************************************************************)
(* Reference arithmetic on single bits, used to state what a mix step      *)
(* computes: a word is a function from bit positions 0..W-1 to {0, 1}.     *)
(***************************************************************************)
WordBits(w) ==
    [k \in 0..(8 * Len(w) - 1) |-> (w[(k \div 8) + 1] \div Pow2(k % 8)) % 2]

\* the positions of the one bits of K
K32Ones == {k \in 0..31 : WordBits(K32)[k] = 1}
K64Ones == {k \in 0..63 : WordBits(K64)[k] = 1}
KOnes(t) == IF t.bits = 32 THEN K32Ones ELSE K64Ones

RefRotl(b, W, n) == [k \in 0..(W - 1) |-> b[(k + W - n) % W]]

RefXor(a, b, W) == [k \in 0..(W - 1) |-> (a[k] + b[k]) % 2]

\* bit k of x * y mod 2^W, y given by the set `ones` of its one bits: the
\* column of partial products plus the carry
RECURSIVE RefMulBits(_, _, _, _, _)
RefMulBits(x, ones, W, k, carry) ==
    IF k = W THEN <<>>
    ELSE LET s == Cardinality({j \in ones : j <= k /\ x[k - j] = 1}) + carry
         IN  <<s % 2>> \o RefMulBits(x, ones, W, k + 1, s \div 2)

\* ((rotate_left_W(s, 5) XOR v) * K) mod 2^W, as a sequence of W bits
RefMix(t, s, v) ==
    RefMulBits(RefXor(RefRotl(WordBits(s), t.bits, 5), WordBits(v), t.bits),
               KOnes(t), t.bits, 0, 0)

BitSeq(w) == [k \in 1..(8 * Len(w)) |-> WordBits(w)[k - 1]]

\* the value of a slice in the target's byte order, zero-extended to a word
NativeValue(t, slice) ==
    [i \in 1..size_of_usize(t) |->
        IF i > Len(slice) THEN 0
        ELSE IF t.endian = "little" THEN slice[i]
        ELSE slice[Len(slice) + 1 - i]]

(***************************************************************************)
(* C1: every mix step of a write call leaves the state equal to            *)
(* ((rotate_left(s, 5) XOR v) * K) mod 2^W for the state s before it and   *)
(* the value v mixed, with K the constant of the target's width; a fresh   *)
(* hasher that consumed one word-sized chunk of native value v finishes    *)
(* with (v * K) mod 2^W, which for the 8 bytes 01..08 on a 64-bit          *)
(* big-endian target is 0xc0128e204fd867a8.                                *)
(***************************************************************************)
MixWordStep ==
    /\ \A j \in 1..Len(last.mixes) :
         BitSeq(last.mixes[j].post.hash)
           = RefMix(target, last.mixes[j].pre.hash, last.mixes[j].value)
    /\ (Len(calls) = 1 /\ Len(calls[1]) = size_of_usize(target))
         => /\ BitSeq(hasher.hash)
                 = RefMulBits(WordBits(NativeValue(target, calls[1])),
                              KOnes(target), target.bits, 0, 0)
            /\ last.op = "finish" => last.ret = as_u64(hasher.hash)
    /\ (target = [bits |-> 64, endian |-> "big"]
          /\ calls = <<<<1, 2, 3, 4, 5, 6, 7, 8>>>>)
         => hasher.hash = <<168, 103, 216, 79, 32, 142, 18, 192>>

\* a call of several mix steps, the later ones from a nonzero state
MixWordStepWitness ==
    /\ last.op = "write"
    /\ Len(last.mixes) >= 3
    /\ last.mixes[3].pre.hash # Zero(size_of_usize(target))
    /\ last.mixes[3].post.hash # last.mixes[3].pre.hash

(***************************************************************************)
(* What a write call is expected to peel, stated from the length alone.    *)
(***************************************************************************)
Rep(n, x) == [i \in 1..n |-> x]

\* the chunk widths of the single-call peeling of N bytes, in order
PeelWidths(N, Wb) ==
    LET r == N % Wb
    IN  Rep(N \div Wb, Wb)
          \o (IF r >= 4 THEN <<4>> ELSE <<>>)
          \o (IF r % 4 >= 2 THEN <<2>> ELSE <<>>)
          \o (IF r % 2 = 1 THEN <<1>> ELSE <<>>)

RECURSIVE SumSeq(_)
SumSeq(ws) == IF ws = <<>> THEN 0 ELSE Head(ws) + SumSeq(Tail(ws))

Popcount3(r) == (r % 2) + ((r \div 2) % 2) + ((r \div 4) % 2)

CeilDiv(n, d) == (n + d - 1) \div d

WordBytes == size_of_usize(target)
LastSlice == calls[Len(calls)]
Before == hist[Len(hist) - 1]
AfterWrite == last.op = "write"

(***************************************************************************)
(* C2: one write call of N bytes mixes floor(N/Wb) word-sized chunks, then *)
(* a 4-byte chunk iff N mod Wb >= 4, a 2-byte chunk iff (N mod Wb) mod 4   *)
(* >= 2 and a 1-byte chunk iff N is odd, in this order; the chunks are     *)
(* consecutive from offset 0, cover the N bytes exactly once, never grow   *)
(* in width, and each is mixed as the value of its bytes in the target's   *)
(* byte order, zero-extended to the word; each mix step starts from the    *)
(* state the previous one left.                                            *)
(***************************************************************************)
PeelChunks ==
    AfterWrite =>
        LET ms == last.mixes
            ws == PeelWidths(Len(LastSlice), WordBytes)
        IN  /\ Len(ms) = Len(ws)
            /\ \A j \in 1..Len(ms) :
                 /\ ms[j].width = ws[j]
                 /\ ms[j].off = SumSeq(SubSeq(ws, 1, j - 1))
                 /\ ms[j].off + ms[j].width <= Len(LastSlice)
                 /\ ms[j].value
                      = NativeValue(target,
                            SubSeq(LastSlice, ms[j].off + 1,
                                   ms[j].off + ms[j].width))
                 /\ j > 1 => /\ ms[j].width <= ms[j - 1].width
                             /\ ms[j].pre = ms[j - 1].post
            /\ SumSeq(ws) = Len(LastSlice)
            /\ ms # <<>> => /\ ms[1].pre = Before
                            /\ ms[Len(ms)].post = hasher
                            /\ ms[Len(ms)].off + ms[Len(ms)].width
                                 = Len(LastSlice)

\* a call that peels chunks of every width, 8, 4, 2 and 1, of bytes with
\* their high bit set
PeelChunksWitness ==
    /\ AfterWrite
    /\ target.bits = 64
    /\ Len(last.mixes) = 4
    /\ last.mixes[4].width = 1
    /\ last.mixes[4].value[1] >= 128
    /\ last.mixes[2].off = 8

(***************************************************************************)
(* C6: a write of the empty slice makes no mix step and leaves the hasher  *)
(* as it was, whatever its state; a new hasher that was given only empty   *)
(* slices has state 0 and finishes with 0.                                 *)
(***************************************************************************)
EmptyWrite ==
    /\ (AfterWrite /\ LastSlice = <<>>)
         => /\ last.mixes = <<>>
            /\ ~last.panicked
            /\ hasher = Before
    /\ (\A j \in 1..Len(calls) : calls[j] = <<>>)
         => /\ hasher.hash = Zero(WordBytes)
            /\ last.op = "finish" => last.ret = Zero(size_of_u64)

\* an empty write on a hasher whose state is not 0, and a finish after
\* only empty writes
EmptyWriteWitness ==
    /\ AfterWrite
    /\ LastSlice = <<>>
    /\ hasher.hash # Zero(WordBytes)
    /\ Len(calls) = 3
    /\ calls[2] # <<>>

(***************************************************************************)
(* C7: a write call of N bytes makes exactly floor(N/Wb) + popcount(N mod  *)
(* Wb) mix steps, at most ceil(N/Wb) + 2, and fewer than N when N >= Wb.   *)
(***************************************************************************)
MixCount ==
    AfterWrite =>
        LET N == Len(LastSlice)
            n == Len(last.mixes)
        IN  /\ n = (N \div WordBytes) + Popcount3(N % WordBytes)
            /\ n <= CeilDiv(N, WordBytes) + 2
            /\ N >= WordBytes => n < N

\* the bound is met: a call of 2 * Wb - 1 bytes on a 64-bit target makes
\* ceil(N/Wb) + 2 = 4 steps
MixCountWitness ==
    /\ AfterWrite
    /\ target.bits = 64
    /\ Len(LastSlice) = 15
    /\ Len(last.mixes) = CeilDiv(15, 8) + 2

(***************************************************************************)
(* C8: write never fails: on 32- and 64-bit targets and for every slice    *)
(* the word-width assertion holds, no split_at is past the end, every      *)
(* conversion gets a slice of its width and bytes[0] is read only from a   *)
(* nonempty slice.                                                         *)
(***************************************************************************)
WriteTotal ==
    /\ word_assert(target)
    /\ ~last.panicked
    /\ AfterWrite =>
         /\ hasher = WriteRun(target, Before, LastSlice).hash
         /\ \A j \in 1..Len(last.mixes) :
              last.mixes[j].off + last.mixes[j].width <= Len(LastSlice)

\* writes that end in the middle of a word, on both widths
WriteTotalWitness ==
    /\ AfterWrite
    /\ Len(LastSlice) % WordBytes = WordBytes - 1
    /\ Len(calls) = 3
    /\ Len(calls[1]) = 1
    /\ Len(calls[2]) = 0

(***************************************************************************)
(* Sequences of write calls.                                               *)
(***************************************************************************)
RECURSIVE Concat(_)
Concat(cs) == IF cs = <<>> THEN <<>> ELSE Head(cs) \o Concat(Tail(cs))

\* the offsets at which the calls j..n cut the bytes they give together
Cuts(j) ==
    {Len(Concat(SubSeq(calls, j, i))) : i \in j..Len(calls)}

\* the chunk boundaries of the single-call peeling of N bytes
Boundaries(N, Wb) ==
    LET ws == PeelWidths(N, Wb)
    IN  {SumSeq(SubSeq(ws, 1, i)) : i \in 0..Len(ws)}

\* the hasher a single write call of all bytes of the calls j..n leaves,
\* from the state the hasher had before call j
OneCall(j) ==
    write(target, hist[j], Concat(SubSeq(calls, j, Len(calls)))).self

(***************************************************************************)
(* C3: when consecutive write calls cut the bytes they give only at chunk  *)
(* boundaries of the single-call peeling of those bytes, they leave the    *)
(* hasher as one write call of all the bytes does, from any state.         *)
(***************************************************************************)
AlignedSplits ==
    \A j \in 1..(Len(calls) - 1) :
        Cuts(j) \subseteq
            Boundaries(Len(Concat(SubSeq(calls, j, Len(calls)))), WordBytes)
        => hasher = OneCall(j)

\* three nonempty calls that cut a 15-byte stream into 8, 4 and 3 bytes
AlignedSplitsWitness ==
    /\ target.bits = 64
    /\ Len(calls) = 3
    /\ Len(calls[1]) = 8
    /\ Len(calls[2]) = 4
    /\ Len(calls[3]) = 3
    /\ hasher.hash # Zero(WordBytes)
    /\ hasher = OneCall(1)
    /\ hasher = OneCall(2)

\* the calls j and j + 1 are the last two and give 2 bytes each
TwoByTwo(j) ==
    /\ j + 1 = Len(calls)
    /\ Len(calls[j]) = 2
    /\ Len(calls[j + 1]) = 2

(***************************************************************************)
(* C4.  As claimed: two write calls of 2 bytes each, "AB" then "CD",       *)
(* leave the hasher as one call of the 4 bytes "ABCD" does.                *)
(***************************************************************************)
TwoCallsAsOne ==
    \A j \in 1..(Len(calls) - 1) : TwoByTwo(j) => hasher = OneCall(j)

(***************************************************************************)
(* C4, amended: the two calls compose in call order: they leave the state  *)
(* mix(mix(s, AB), CD) of two 16-bit chunks, where one call of "ABCD"      *)
(* leaves mix(s, ABCD) of one 32-bit chunk; the two agree exactly when     *)
(* rotate_left(mix(s, AB), 5) XOR CD = rotate_left(s, 5) XOR ABCD.         *)
(***************************************************************************)
TwoCallsCompose ==
    \A j \in 1..(Len(calls) - 1) :
        TwoByTwo(j) =>
            LET s == hist[j]
                ab == NativeValue(target, calls[j])
                cd == NativeValue(target, calls[j + 1])
                abcd == NativeValue(target, calls[j] \o calls[j + 1])
                mid == add_to_hash(target, s, ab)
            IN  /\ hist[j + 1] = mid
                /\ hasher = add_to_hash(target, mid, cd)
                /\ OneCall(j) = add_to_hash(target, s, abcd)
                /\ (hasher = OneCall(j))
                     <=> (bitxor(rotate_left(mid.hash, 5), cd)
                            = bitxor(rotate_left(s.hash, 5), abcd))

\* "AB" then "CD" from a state that is not 0, where one call differs
TwoCallsComposeWitness ==
    /\ Len(calls) = 3
    /\ TwoByTwo(2)
    /\ hist[2].hash # Zero(WordBytes)
    /\ hasher # OneCall(2)

\* the hasher the write calls cs leave from h, with no finish between them
RECURSIVE WritesOnly(_, _)
WritesOnly(h, cs) ==
    IF cs = <<>> THEN h
    ELSE WritesOnly(write(target, h, Head(cs)).self, Tail(cs))

FinishObserved ==
    /\ hasher = WritesOnly(default(target), calls)
    /\ hasher = hist[Len(hist)]
    /\ last.op = "finish" =>
         /\ Len(last.ret) = 8
         /\ \A i \in 1..8 :
              last.ret[i] = IF i <= WordBytes THEN hasher.hash[i] ELSE 0

FinishStep ==
    last'.op = "finish" =>
        /\ hasher' = hasher
        /\ last.op = "finish" => last'.ret = last.ret

(***************************************************************************)
(* C5: finish changes nothing: it returns the state zero-extended to 64    *)
(* bits, a second finish returns the same value, and the hasher is always  *)
(* the one that the write calls alone leave from a new hasher, however     *)
(* many finish calls came between them.                                    *)
(***************************************************************************)
FinishPure == [](FinishObserved) /\ [][FinishStep]_vars

\* a finish on a 32-bit target after two writes, the state's top bit set
FinishPureWitness ==
    /\ last.op = "finish"
    /\ target.bits = 32
    /\ Len(calls) = 2
    /\ calls[1] # <<>>
    /\ hasher.hash[4] >= 128
    /\ last.ret[4] >= 128

\* the lengths of the sample corpus
CorpusLens == {0, 1, 2, 3, 4, 7, 8, 9, 16, 17}

Hash(bytes) == finish(write(target, default(target), bytes).self).ret

Sequences(ps) ==
    {SubSeq(Buffer(p), 1, n) : p \in ps, n \in {m \in CorpusLens : m <= MaxTotal}}

OneCallOf(ps) ==
    /\ Len(calls) = 1
    /\ calls[1] \in Sequences(ps)
    /\ last.op = "finish"

(***************************************************************************)
(* C9.  As claimed: no two distinct byte sequences of lengths 0, 1, 2, 3,  *)
(* 4, 7, 8, 9, 16, 17, each written in one call to a new hasher, finish    *)
(* with the same value.                                                    *)
(***************************************************************************)
NoCollisions ==
    OneCallOf(Patterns) =>
        \A other \in Sequences(Patterns) :
            other # calls[1] => Hash(other) # last.ret

Corpus == Sequences({"count", "high"})

(***************************************************************************)
(* C9, amended: no two distinct sequences of the sample corpus, the        *)
(* prefixes of those lengths of the buffers 1, 2, 3, ... and 252, 249,     *)
(* 246, ..., finish with the same value; sequences of zero bytes of any    *)
(* length all finish with 0, as the empty sequence does.                   *)
(***************************************************************************)
CorpusNoCollisions ==
    /\ OneCallOf({"count", "high"}) =>
         \A other \in Corpus : other # calls[1] => Hash(other) # last.ret
    /\ (Len(calls) = 1 /\ calls[1] = Zero(Len(calls[1])))
         => hasher.hash = Zero(WordBytes)

\* the longest sequence of the corpus hashed, and no other of the corpus
\* has its value
CorpusNoCollisionsWitness ==
    /\ OneCallOf({"high"})
    /\ Len(calls[1]) = 17
    /\ last.ret # Zero(size_of_u64)
    /\ Cardinality(Corpus) = 19

\* word w with bit b of limb i flipped
Flip(w, i, b) == [w EXCEPT ![i] = XorByte(w[i], Pow2(b))]

Near(w) == {w} \cup {Flip(w, i, b) : i \in {1, Len(w)}, b \in {0, 2, 7}}

Windows ==
    {SubSeq(data, o + 1, o + WordBytes) : o \in 0..(MaxTotal - WordBytes)}

Injective(S, F(_)) == Cardinality({F(x) : x \in S}) = Cardinality(S)

(***************************************************************************)
(* C10: a mix step is injective in the state and in the value: from the    *)
(* states the hasher went through and the states one bit away from its     *)
(* own, one value gives distinct states; from one state, the words of the  *)
(* buffer and the words one bit away from them give distinct states, and   *)
(* two word-sized slices written to the same hasher leave the same state   *)
(* only if they are equal.                                                 *)
(***************************************************************************)
MixInjective ==
    ~AfterWrite \/
    LET v0 == NativeValue(target, SubSeq(data, 1, WordBytes))
        states == {hist[i].hash : i \in 1..Len(hist)} \cup Near(hasher.hash)
        values == {NativeValue(target, b) : b \in Windows} \cup Near(v0)
        MixState(s) == add_to_hash(target, [hash |-> s], v0)
        MixValue(v) == add_to_hash(target, hasher, v)
        WriteWord(b) == write(target, hasher, b).self
    IN  /\ Injective(states, MixState)
        /\ Injective(values, MixValue)
        /\ Injective(Windows, WriteWord)

\* a hasher that went through three distinct states, over a buffer whose
\* words differ
MixInjectiveWitness ==
    /\ AfterWrite
    /\ Len(calls) = 2
    /\ Cardinality({hist[i] : i \in 1..Len(hist)}) = 3
    /\ Cardinality(Windows) > 1
    /\ target.bits = 64

====
